---- MODULE Spec2Model ----
(***************************************************************************)
(* A model of the datasize crate: the DataSize value type (a u32 count of  *)
(* bits), its constructors, accessors, max_value, Add, Sub and Display,    *)
(* the Fits predicate for u32, and the construction macros.                *)
(*                                                                         *)
(* TLC's integers are 32-bit signed, so a u32 cannot be one of them.       *)
(* Every number of the program is therefore a little-endian sequence of    *)
(* NLimbs limbs in base 2^8, which holds 64 bits: enough for the u32       *)
(* values themselves, for the exact products and sums of u32 values, and   *)
(* for the wider integers a macro argument may be before its cast.         *)
(***************************************************************************)
EXTENDS Integers, Sequences, FiniteSets, TLC

VARIABLES overflow_checks, made, size, call, ret

vars == <<overflow_checks, made, size, call, ret>>

----------------------------------------------------------------------------
(* Exact arithmetic on limb sequences.                                     *)

U32_BITS == 32

Base == 2^8

U32Limbs == U32_BITS \div 8

NLimbs == 2 * U32Limbs

Limbs == 1..NLimbs

\* The number n, for an integer 0 <= n < 2^31.
FromInt(n) == [i \in Limbs |-> IF i <= U32Limbs THEN (n \div Base^(i - 1)) % Base ELSE 0]

Zero == FromInt(0)

One == FromInt(1)

RECURSIVE AddLimbs(_, _, _, _)
AddLimbs(x, y, i, carry) ==
    IF i > NLimbs THEN <<>>
    ELSE LET s == x[i] + y[i] + carry
         IN  <<s % Base>> \o AddLimbs(x, y, i + 1, s \div Base)

\* x + y (exact while the sum is below 2^64).
Plus(x, y) == AddLimbs(x, y, 1, 0)

RECURSIVE SubLimbs(_, _, _, _)
SubLimbs(x, y, i, borrow) ==
    IF i > NLimbs THEN <<>>
    ELSE LET s == x[i] - y[i] - borrow
         IN  <<s % Base>> \o SubLimbs(x, y, i + 1, IF s < 0 THEN 1 ELSE 0)

\* x - y, for y <= x.
Minus(x, y) == SubLimbs(x, y, 1, 0)

RECURSIVE LessFrom(_, _, _)
LessFrom(x, y, i) ==
    IF i = 0 THEN FALSE
    ELSE IF x[i] # y[i] THEN x[i] < y[i]
    ELSE LessFrom(x, y, i - 1)

Less(x, y) == LessFrom(x, y, NLimbs)

Leq(x, y) == ~Less(y, x)

RECURSIVE MulLimbs(_, _, _, _)
MulLimbs(x, k, i, carry) ==
    IF i > NLimbs THEN <<>>
    ELSE LET s == x[i] * k + carry
         IN  <<s % Base>> \o MulLimbs(x, k, i + 1, s \div Base)

\* x * k for one limb k.
TimesLimb(x, k) == MulLimbs(x, k, 1, 0)

\* x * Base^j.
ShiftLimbs(x, j) == [i \in Limbs |-> IF i <= j THEN 0 ELSE x[i - j]]

RECURSIVE TimesFrom(_, _, _)
TimesFrom(x, y, j) ==
    IF j > NLimbs THEN Zero
    ELSE Plus(ShiftLimbs(TimesLimb(x, y[j]), j - 1), TimesFrom(x, y, j + 1))

\* x * y (exact while the product is below 2^64).
Times(x, y) == TimesFrom(x, y, 1)

\* The remainder of the number made of limbs i..NLimbs of x, divided by d.
RECURSIVE RemFrom(_, _, _)
RemFrom(x, d, i) ==
    IF i > NLimbs THEN 0
    ELSE (RemFrom(x, d, i + 1) * Base + x[i]) % d

\* x \div d and x % d by long division, for an integer 0 < d < 2^23.
DivSmall(x, d) == [i \in Limbs |-> (RemFrom(x, d, i + 1) * Base + x[i]) \div d]

RemSmall(x, d) == RemFrom(x, d, 1)

\* 2^w for an integer 0 <= w < 64.
Pow2(w) == [i \in Limbs |-> IF i = (w \div 8) + 1 THEN 2^(w % 8) ELSE 0]

U32_MAX == [i \in Limbs |-> IF i <= U32Limbs THEN Base - 1 ELSE 0]

IsU32(x) == \A i \in Limbs : i > U32Limbs => x[i] = 0

\* x mod 2^32.
Trunc32(x) == [i \in Limbs |-> IF i <= U32Limbs THEN x[i] ELSE 0]

\* The integer a limb sequence below 2^31 stands for.
RECURSIVE ToIntFrom(_, _)
ToIntFrom(x, i) == IF i > U32Limbs THEN 0 ELSE x[i] + Base * ToIntFrom(x, i + 1)

ToInt(x) == ToIntFrom(x, 1)

----------------------------------------------------------------------------
(* The u32 primitives of the standard library that the crate calls.        *)

Some(v) == [some |-> TRUE, value |-> v]

None == [some |-> FALSE]

\* checked_mul as wrapping_mul: the low 32 bits of the product, never None.
checked_mul_wrapping(x, y) == Some(Trunc32(Times(x, y)))

\* u32::checked_mul: the product, or None when it does not fit in 32 bits.
checked_mul(x, y) ==
    LET p == Times(x, y) IN IF IsU32(p) THEN Some(p) ELSE None

\* checked_add as wrapping_add: the low 32 bits of the sum, never None.
checked_add_wrapping(x, y) == Some(Trunc32(Plus(x, y)))

\* u32::checked_add: the sum, or None when it does not fit in 32 bits.
checked_add(x, y) ==
    LET s == Plus(x, y) IN IF IsU32(s) THEN Some(s) ELSE None

\* checked_sub as wrapping_sub: the difference modulo 2^32, never None.
checked_sub_wrapping(x, y) ==
    Some(IF Less(x, y) THEN Minus(Plus(x, Pow2(32)), y) ELSE Minus(x, y))

\* u32::checked_sub: the difference, or None when it is negative.
checked_sub(x, y) ==
    IF Less(x, y) THEN None ELSE Some(Minus(x, y))

\* x - y modulo 2^32: what `x - y` yields when overflow checks are off.
wrapping_sub(x, y) ==
    IF Less(x, y) THEN Minus(Plus(x, Pow2(U32_BITS)), y) ELSE Minus(x, y)

\* `m | 1` on a u32.
BitOr1(m) == IF m[1] % 2 = 1 THEN m ELSE Plus(m, One)

\* `m << 1` on a u32: the bit shifted out of the top is dropped.
Shl1(m) == Trunc32(Plus(m, m))

\* `e as u32` for an integer expression e = [neg, mag] of a wider type:
\* the low 32 bits of its two's complement form.
as_u32(e) ==
    IF e.neg THEN wrapping_sub(Zero, Trunc32(e.mag)) ELSE Trunc32(e.mag)

----------------------------------------------------------------------------
(* DataSize.  A call either returns a value or panics.                     *)

Ok(v) == [kind |-> "ok", value |-> v]

Panic(m) == [kind |-> "panic", message |-> m]

DataSize(n) == [num_bits |-> n]

BYTE_IN_BITS == 8

KILOBYTE_IN_BITS == 1000 * BYTE_IN_BITS

MEGABYTE_IN_BITS == 1000 * KILOBYTE_IN_BITS

new_from_bits(num_bits) == Ok(DataSize(num_bits))

new_from_bytes(num_bytes) ==
    LET r == checked_mul(num_bytes, FromInt(BYTE_IN_BITS))
    IN  IF r.some THEN Ok(DataSize(r.value))
        ELSE Panic("Unsupported number of bytes, it cannot fit in a u32 as a number of bits")

new_from_kilobytes(num_kilobytes) ==
    LET r == checked_mul(num_kilobytes, FromInt(KILOBYTE_IN_BITS))
    IN  IF r.some THEN Ok(DataSize(r.value))
        ELSE Panic("Unsupported number of kilobytes, it cannot fit in a u32 as a number of bits")

new_from_megabytes(num_megabytes) ==
    LET r == checked_mul(num_megabytes, FromInt(MEGABYTE_IN_BITS))
    IN  IF r.some THEN Ok(DataSize(r.value))
        ELSE Panic("Unsupported number of megabytes, it cannot fit in a u32 as a number of bits")

bits(self) == self.num_bits

bytes(self) == DivSmall(self.num_bits, 8)

\* kilobytes with the binary multiple in place of the decimal one.
kilobytes_binary(self) == DivSmall(DivSmall(self.num_bits, 8), 1024)

kilobytes(self) == DivSmall(bytes(self), 1000)

\* megabytes one division short: derived from bytes(), not from kilobytes().
megabytes_from_bytes(self) == DivSmall(DivSmall(self.num_bits, 8), 1000)

megabytes(self) == DivSmall(kilobytes(self), 1000)

\* The loop of max_value, `count` iterations from m.  Its body is a function
\* of m alone, so once an iteration leaves m unchanged all the later ones do,
\* and the remaining iterations are skipped.
RECURSIVE MaxValueLoop(_, _)
MaxValueLoop(m, count) ==
    IF count = Zero THEN m
    ELSE LET next == Shl1(BitOr1(m))
         IN  IF next = m THEN m ELSE MaxValueLoop(next, Minus(count, One))

\* `self.bits() - 1` panics on a width of 0 when the build checks overflow
\* (the debug profile) and wraps to 2^32 - 1 when it does not (release).
max_value(self, checks) ==
    IF bits(self) = Zero /\ checks
    THEN Panic("attempt to subtract with overflow")
    ELSE Ok(BitOr1(MaxValueLoop(Zero, wrapping_sub(bits(self), One))))

\* add that keeps the left operand when the sum overflows, instead of panicking.
add_keeps_self(self, other) ==
    LET r == checked_add(self.num_bits, other.num_bits)
    IN  IF r.some THEN Ok(DataSize(r.value)) ELSE Ok(self)

add(self, other) ==
    LET r == checked_add(self.num_bits, other.num_bits)
    IN  IF r.some THEN Ok(DataSize(r.value))
        ELSE Panic("Addition results in an overflow")

sub(self, other) ==
    LET r == checked_sub(self.num_bits, other.num_bits)
    IN  IF r.some THEN Ok(DataSize(r.value))
        ELSE Panic("Subtraction results in a negative number")

\* `lhs + rhs` where the operands are themselves outcomes of expressions: a
\* panic in an operand ends the evaluation.
AddOutcomes(lhs, rhs) ==
    IF lhs.kind = "panic" THEN lhs
    ELSE IF rhs.kind = "panic" THEN rhs
    ELSE add(lhs.value, rhs.value)

\* The decimal digits "{}" writes for a u32, most significant first.
RECURSIVE DigitsOf(_)
DigitsOf(x) ==
    LET d == <<"0", "1", "2", "3", "4", "5", "6", "7", "8", "9">>[RemSmall(x, 10) + 1]
    IN  IF Less(x, FromInt(10)) THEN <<d>> ELSE DigitsOf(DivSmall(x, 10)) \o <<d>>

\* Display without the singular branches: the descriptor is always plural.
fmt_always_plural(self) ==
    LET chosen ==
            IF Less(Zero, megabytes(self)) THEN <<megabytes(self), "megabytes">>
            ELSE IF Less(Zero, kilobytes(self)) THEN <<kilobytes(self), "kilobytes">>
            ELSE IF Less(Zero, bytes(self)) THEN <<bytes(self), "bytes">>
            ELSE <<bits(self), "bits">>
    IN  DigitsOf(chosen[1]) \o <<" ", chosen[2]>>

\* Display: the text as the digits, a space and the descriptor.
fmt(self) ==
    LET chosen ==
            IF megabytes(self) = One THEN <<megabytes(self), "megabyte">>
            ELSE IF Less(One, megabytes(self)) THEN <<megabytes(self), "megabytes">>
            ELSE IF kilobytes(self) = One THEN <<kilobytes(self), "kilobyte">>
            ELSE IF Less(One, kilobytes(self)) THEN <<kilobytes(self), "kilobytes">>
            ELSE IF bytes(self) = One THEN <<bytes(self), "byte">>
            ELSE IF Less(One, bytes(self)) THEN <<bytes(self), "bytes">>
            ELSE IF bits(self) = One THEN <<bits(self), "bit">>
            ELSE <<bits(self), "bits">>
    IN  DigitsOf(chosen[1]) \o <<" ", chosen[2]>>

\* Fits for u32.
fits_in(self, size_, checks) ==
    LET m == max_value(size_, checks)
    IN  IF m.kind = "panic" THEN m ELSE Ok(Leq(self, m.value))

----------------------------------------------------------------------------
(* The macros.                                                             *)

bits_macro(amount) == new_from_bits(as_u32(amount))

bytes_macro(amount) == new_from_bytes(as_u32(amount))

kilobytes_macro(amount) == new_from_kilobytes(as_u32(amount))

megabytes_macro(amount) == new_from_megabytes(as_u32(amount))

datasize_macro(amount, size_type) ==
    CASE size_type = "bits" -> bits_macro(amount)
      [] size_type = "bytes" -> bytes_macro(amount)
      [] size_type = "kilobytes" -> kilobytes_macro(amount)
      [] size_type = "megabytes" -> megabytes_macro(amount)
      [] OTHER -> Panic("Unsupported size")

----------------------------------------------------------------------------
(* The inputs.  The u32 values tried are the bit-widths 0..MaxWidth and    *)
(* the values within Delta of each boundary of the program: the unit       *)
(* multipliers, the largest count each constructor accepts, 2^31 and the   *)
(* largest u32.                                                            *)

Delta == 1

MaxWidth == 33

Near(x) ==
    {Plus(x, FromInt(d)) : d \in 0..Delta}
        \cup {Minus(x, FromInt(d)) : d \in {e \in 0..Delta : Leq(FromInt(e), x)}}

U32Near(x) == {y \in Near(x) : IsU32(y)}

Widths == {FromInt(w) : w \in 0..MaxWidth}

Counts ==
    Widths
        \cup U32Near(FromInt(KILOBYTE_IN_BITS))
        \cup U32Near(FromInt(MEGABYTE_IN_BITS))
        \cup U32Near(DivSmall(U32_MAX, MEGABYTE_IN_BITS))
        \cup U32Near(DivSmall(U32_MAX, KILOBYTE_IN_BITS))
        \cup U32Near(DivSmall(U32_MAX, BYTE_IN_BITS))
        \cup U32Near(Pow2(U32_BITS - 1))
        \cup U32Near(U32_MAX)

\* The right-hand operands of + and -.
Operands ==
    {DataSize(n) : n \in U32Near(Zero) \cup {Pow2(U32_BITS - 1)} \cup U32Near(U32_MAX)}

\* The values asked to fit: 2^w - 1 and 2^w around some widths w.
FitValues ==
    {v \in UNION {{Minus(Pow2(w), One), Pow2(w)} : w \in {0, 1, 2, 3, 16, 31, 32}} : IsU32(v)}

\* The integer expressions handed to a macro: in range, negative, and wider
\* than 32 bits.
Amounts ==
    [neg : {FALSE}, mag : U32Near(Zero) \cup {FromInt(4)} \cup Near(U32_MAX) \cup Near(Pow2(U32_BITS + 1))]
        \cup [neg : {TRUE}, mag : Near(One) \ {Zero}]

SizeTypes == {"bits", "bytes", "kilobytes", "megabytes", "petabytes"}

----------------------------------------------------------------------------
(* The state machine: one expression is evaluated.  A DataSize is built    *)
(* (made, size), then one call is made on it (call, ret).  A panic ends    *)
(* the evaluation.  overflow_checks is the build's setting.                *)

Nothing == [op |-> "none"]

Init ==
    /\ overflow_checks \in BOOLEAN
    /\ made = Nothing
    /\ size = Nothing
    /\ call = Nothing
    /\ ret = Nothing

\* No DataSize has been built yet.
CanBuild == made = Nothing

\* A DataSize has been built and no call has been made on it yet.
CanCall == made # Nothing /\ size.kind = "ok" /\ call = Nothing

NewFromBits ==
    \E n \in Counts :
        /\ CanBuild
        /\ made' = [op |-> "new_from_bits", arg |-> n]
        /\ size' = new_from_bits(n)
        /\ UNCHANGED <<overflow_checks, call, ret>>

NewFromBytes ==
    \E n \in Counts :
        /\ CanBuild
        /\ made' = [op |-> "new_from_bytes", arg |-> n]
        /\ size' = new_from_bytes(n)
        /\ UNCHANGED <<overflow_checks, call, ret>>

NewFromKilobytes ==
    \E n \in Counts :
        /\ CanBuild
        /\ made' = [op |-> "new_from_kilobytes", arg |-> n]
        /\ size' = new_from_kilobytes(n)
        /\ UNCHANGED <<overflow_checks, call, ret>>

NewFromMegabytes ==
    \E n \in Counts :
        /\ CanBuild
        /\ made' = [op |-> "new_from_megabytes", arg |-> n]
        /\ size' = new_from_megabytes(n)
        /\ UNCHANGED <<overflow_checks, call, ret>>

BitsMacro ==
    \E e \in Amounts :
        /\ CanBuild
        /\ made' = [op |-> "bits!", arg |-> e]
        /\ size' = bits_macro(e)
        /\ UNCHANGED <<overflow_checks, call, ret>>

BytesMacro ==
    \E e \in Amounts :
        /\ CanBuild
        /\ made' = [op |-> "bytes!", arg |-> e]
        /\ size' = bytes_macro(e)
        /\ UNCHANGED <<overflow_checks, call, ret>>

KilobytesMacro ==
    \E e \in Amounts :
        /\ CanBuild
        /\ made' = [op |-> "kilobytes!", arg |-> e]
        /\ size' = kilobytes_macro(e)
        /\ UNCHANGED <<overflow_checks, call, ret>>

MegabytesMacro ==
    \E e \in Amounts :
        /\ CanBuild
        /\ made' = [op |-> "megabytes!", arg |-> e]
        /\ size' = megabytes_macro(e)
        /\ UNCHANGED <<overflow_checks, call, ret>>

DatasizeMacro ==
    \E e \in Amounts, t \in SizeTypes :
        /\ CanBuild
        /\ made' = [op |-> "datasize!", arg |-> e, size_type |-> t]
        /\ size' = datasize_macro(e, t)
        /\ UNCHANGED <<overflow_checks, call, ret>>

Bits ==
    /\ CanCall
    /\ call' = [op |-> "bits"]
    /\ ret' = Ok(bits(size.value))
    /\ UNCHANGED <<overflow_checks, made, size>>

Bytes ==
    /\ CanCall
    /\ call' = [op |-> "bytes"]
    /\ ret' = Ok(bytes(size.value))
    /\ UNCHANGED <<overflow_checks, made, size>>

Kilobytes ==
    /\ CanCall
    /\ call' = [op |-> "kilobytes"]
    /\ ret' = Ok(kilobytes(size.value))
    /\ UNCHANGED <<overflow_checks, made, size>>

Megabytes ==
    /\ CanCall
    /\ call' = [op |-> "megabytes"]
    /\ ret' = Ok(megabytes(size.value))
    /\ UNCHANGED <<overflow_checks, made, size>>

MaxValue ==
    /\ CanCall
    /\ call' = [op |-> "max_value"]
    /\ ret' = max_value(size.value, overflow_checks)
    /\ UNCHANGED <<overflow_checks, made, size>>

Add ==
    \E other \in Operands :
        /\ CanCall
        /\ call' = [op |-> "add", other |-> other]
        /\ ret' = add(size.value, other)
        /\ UNCHANGED <<overflow_checks, made, size>>

Sub ==
    \E other \in Operands :
        /\ CanCall
        /\ call' = [op |-> "sub", other |-> other]
        /\ ret' = sub(size.value, other)
        /\ UNCHANGED <<overflow_checks, made, size>>

Fmt ==
    /\ CanCall
    /\ call' = [op |-> "fmt"]
    /\ ret' = Ok(fmt(size.value))
    /\ UNCHANGED <<overflow_checks, made, size>>

FitsIn ==
    \E v \in FitValues :
        /\ CanCall
        /\ call' = [op |-> "fits_in", self |-> v]
        /\ ret' = fits_in(v, size.value, overflow_checks)
        /\ UNCHANGED <<overflow_checks, made, size>>

\* The sums of size (a) with two more operands b and c, in both orders and
\* both groupings.
AddSums ==
    \E b \in Operands, c \in Operands :
        /\ CanCall
        /\ call' = [op |-> "sums", b |-> b, c |-> c]
        /\ ret' = [ab   |-> add(size.value, b),
                   ba   |-> add(b, size.value),
                   ab_c |-> AddOutcomes(add(size.value, b), Ok(c)),
                   a_bc |-> AddOutcomes(Ok(size.value), add(b, c))]
        /\ UNCHANGED <<overflow_checks, made, size>>

Next ==
    \/ NewFromBits
    \/ NewFromBytes
    \/ NewFromKilobytes
    \/ NewFromMegabytes
    \/ BitsMacro
    \/ BytesMacro
    \/ KilobytesMacro
    \/ MegabytesMacro
    \/ DatasizeMacro
    \/ Bits
    \/ Bytes
    \/ Kilobytes
    \/ Megabytes
    \/ MaxValue
    \/ Add
    \/ Sub
    \/ Fmt
    \/ FitsIn
    \/ AddSums

Spec == Init /\ [][Next]_vars

----------------------------------------------------------------------------
(* The properties.                                                         *)

Constructors == {"new_from_bits", "new_from_bytes", "new_from_kilobytes", "new_from_megabytes"}

Macros == {"bits!", "bytes!", "kilobytes!", "megabytes!", "datasize!"}

\* The number of bits in one unit, by constructor, macro or size type.
BitsPerUnit(name) ==
    CASE name \in {"new_from_bits", "bits!", "bits"} -> 1
      [] name \in {"new_from_bytes", "bytes!", "bytes"} -> 8
      [] name \in {"new_from_kilobytes", "kilobytes!", "kilobytes"} -> 8000
      [] name \in {"new_from_megabytes", "megabytes!", "megabytes"} -> 8000000

OverflowMessages ==
    {"Unsupported number of bytes, it cannot fit in a u32 as a number of bits",
     "Unsupported number of kilobytes, it cannot fit in a u32 as a number of bits",
     "Unsupported number of megabytes, it cannot fit in a u32 as a number of bits",
     "Addition results in an overflow"}

\* v is exactly n * k, said without multiplying.
IsProduct(v, n, k) == DivSmall(v, k) = n /\ RemSmall(v, k) = 0

\* n * k <= 2^32 - 1, said without multiplying.
ProductFits(n, k) == Leq(n, DivSmall(U32_MAX, k))

\* C1: for every bit-width w in 0..32, max_value() on a DataSize of w bits
\* returns 2^w - 1 and does not fail: 0 for w = 0, 2^32 - 1 for w = 32.
C1_MaxValueIsTwoToWidthMinusOne ==
    (call.op = "max_value" /\ Leq(bits(size.value), FromInt(32)))
        => /\ ret.kind = "ok"
           /\ ret.value = Minus(Pow2(ToInt(bits(size.value))), One)

\* C2: fits_in(v, capacity) always returns a boolean, and it is true exactly
\* when v <= 2^capacity.bits() - 1 (always, once the width reaches 32).
C2_FitsInIsTotalAndExact ==
    call.op = "fits_in"
        => /\ ret.kind = "ok"
           /\ ret.value = (IF Leq(FromInt(32), bits(size.value)) THEN TRUE
                           ELSE Less(call.self, Pow2(ToInt(bits(size.value)))))

\* C3: a constructor given n with unit multiplier k succeeds with num_bits
\* exactly n * k if and only if n * k <= 2^32 - 1, and otherwise fails with
\* an overflow panic; new_from_bits never fails.
C3_ConstructorsExactOrOverflow ==
    made.op \in Constructors
        => LET n == made.arg
               k == BitsPerUnit(made.op)
           IN  /\ IF ProductFits(n, k)
                  THEN /\ size.kind = "ok"
                       /\ IsU32(size.value.num_bits)
                       /\ IsProduct(size.value.num_bits, n, k)
                  ELSE /\ size.kind = "panic"
                       /\ size.message \in OverflowMessages
               /\ made.op = "new_from_bits" => size.kind = "ok"

\* C3 witness: new_from_megabytes was called one past the largest count whose
\* product fits and panicked.
C3_Witness ==
    /\ made.op = "new_from_megabytes"
    /\ made.arg = FromInt(537)
    /\ size.kind = "panic"

\* C4: a + b succeeds with num_bits = a.num_bits + b.num_bits if and only if
\* the exact sum is <= 2^32 - 1, and otherwise panics with an overflow.
C4_AddExactOrOverflow ==
    call.op = "add"
        => LET a == size.value.num_bits
               b == call.other.num_bits
           IN  IF Leq(b, Minus(U32_MAX, a))
               THEN /\ ret.kind = "ok"
                    /\ IsU32(ret.value.num_bits)
                    /\ Leq(a, ret.value.num_bits)
                    /\ Minus(ret.value.num_bits, a) = b
               ELSE /\ ret.kind = "panic"
                    /\ ret.message = "Addition results in an overflow"

\* C4 witness: the largest u32 plus one bit panicked.
C4_Witness ==
    /\ call.op = "add"
    /\ size.value.num_bits = U32_MAX
    /\ call.other.num_bits = One
    /\ ret.kind = "panic"

\* C5: a - b panics with a negative result if and only if b.num_bits >
\* a.num_bits, and otherwise succeeds with num_bits = a.num_bits - b.num_bits
\* (so a - a is the 0-bit DataSize).
C5_SubExactOrUnderflow ==
    call.op = "sub"
        => LET a == size.value.num_bits
               b == call.other.num_bits
           IN  /\ IF Less(a, b)
                  THEN /\ ret.kind = "panic"
                       /\ ret.message = "Subtraction results in a negative number"
                  ELSE /\ ret.kind = "ok"
                       /\ Plus(ret.value.num_bits, b) = a
               /\ a = b => ret = Ok(DataSize(Zero))

\* C5 witness: a nonzero DataSize minus itself gave the 0-bit DataSize.
C5_Witness ==
    /\ call.op = "sub"
    /\ size.value = call.other
    /\ size.value.num_bits = U32_MAX
    /\ ret = Ok(DataSize(Zero))

DigitValue(c) ==
    CHOOSE d \in 0..9 : <<"0", "1", "2", "3", "4", "5", "6", "7", "8", "9">>[d + 1] = c

\* The number a sequence of decimal digits reads as.
RECURSIVE ReadDigits(_)
ReadDigits(ds) ==
    IF ds = <<>> THEN Zero
    ELSE Plus(TimesLimb(ReadDigits(SubSeq(ds, 1, Len(ds) - 1)), 10),
              FromInt(DigitValue(ds[Len(ds)])))

\* The unit Display is to show: the largest whose accessor is >= 1, else bits.
ShownUnit(d) ==
    IF Leq(One, megabytes(d)) THEN <<megabytes(d), "megabyte">>
    ELSE IF Leq(One, kilobytes(d)) THEN <<kilobytes(d), "kilobyte">>
    ELSE IF Leq(One, bytes(d)) THEN <<bytes(d), "byte">>
    ELSE <<bits(d), "bit">>

\* C6: the display text is "<value> <unit>": the unit is the largest of
\* megabyte, kilobyte, byte, bit whose accessor is >= 1 (bits when all are
\* 0), <value> is that accessor's value in decimal, and the unit name is
\* singular exactly when <value> = 1.
C6_DisplayLargestUnit ==
    call.op = "fmt"
        => LET text == ret.value
               shown == ShownUnit(size.value)
               digits == SubSeq(text, 1, Len(text) - 2)
           IN  /\ ret.kind = "ok"
               /\ Len(text) >= 3
               /\ \A i \in 1..Len(digits) :
                      digits[i] \in {"0", "1", "2", "3", "4", "5", "6", "7", "8", "9"}
               /\ (Len(digits) > 1 => digits[1] # "0")
               /\ ReadDigits(digits) = shown[1]
               /\ text[Len(text) - 1] = " "
               /\ text[Len(text)] = (IF shown[1] = One THEN shown[2] ELSE shown[2] \o "s")

\* C6 witness: exactly 8000 bits were displayed as "1 kilobyte".
C6_Witness ==
    /\ call.op = "fmt"
    /\ size.value.num_bits = FromInt(8000)
    /\ ret.value = <<"1", " ", "kilobyte">>

\* The num_bits of every DataSize a constructor builds from the counts tried.
BitCountsTried ==
    {o.value.num_bits :
        o \in {x \in {new_from_bits(n) : n \in Counts}
                      \cup {new_from_bytes(n) : n \in Counts}
                      \cup {new_from_kilobytes(n) : n \in Counts}
                      \cup {new_from_megabytes(n) : n \in Counts} : x.kind = "ok"}}

\* C7 as stated: megabytes() returns the chained division
\* ((num_bits / 8) / 1000) / 1000, and there is some num_bits, among those
\* the constructors build, for which that differs from the single division
\* num_bits / 8000000.
C7_ChainedDiffersFromSingleDivision ==
    call.op = "megabytes"
        => /\ ret = Ok(DivSmall(DivSmall(DivSmall(size.value.num_bits, 8), 1000), 1000))
           /\ \E n \in BitCountsTried :
                  megabytes(DataSize(n)) # DivSmall(n, 8000000)

\* C7 as amended: megabytes() is ((num_bits / 8) / 1000) / 1000 and
\* kilobytes() is (num_bits / 8) / 1000, and for every num_bits these equal
\* the single divisions num_bits / 8000000 and num_bits / 8000.
C7_ChainedEqualsSingleDivision ==
    LET n == size.value.num_bits
    IN  /\ call.op = "megabytes"
            => /\ ret = Ok(DivSmall(DivSmall(DivSmall(n, 8), 1000), 1000))
               /\ ret.value = DivSmall(n, 8000000)
        /\ call.op = "kilobytes"
            => /\ ret = Ok(DivSmall(DivSmall(n, 8), 1000))
               /\ ret.value = DivSmall(n, 8000)

\* C7 witness: megabytes() was called on 2^32 - 1 bits, where every stage of
\* the chain drops a remainder (7 bits, 911 bytes, 870 kilobytes), and
\* returned 536.
C7_Witness ==
    /\ call.op = "megabytes"
    /\ size.value.num_bits = U32_MAX
    /\ RemSmall(size.value.num_bits, 8) # 0
    /\ RemSmall(bytes(size.value), 1000) # 0
    /\ RemSmall(kilobytes(size.value), 1000) # 0
    /\ ret = Ok(FromInt(536))

\* C8: when the constructor does not overflow, reading back the unit it was
\* given returns the count it was given: new_from_bits(n).bits() = n,
\* new_from_bytes(n).bytes() = n and .bits() = 8 * n,
\* new_from_kilobytes(n).kilobytes() = n, new_from_megabytes(n).megabytes() = n.
C8_RoundTrip ==
    (made.op \in Constructors /\ ProductFits(made.arg, BitsPerUnit(made.op)))
        => LET n == made.arg
           IN  /\ (made.op = "new_from_bits" /\ call.op = "bits") => ret = Ok(n)
               /\ (made.op = "new_from_bytes" /\ call.op = "bytes") => ret = Ok(n)
               /\ (made.op = "new_from_bytes" /\ call.op = "bits") => ret = Ok(TimesLimb(n, 8))
               /\ (made.op = "new_from_kilobytes" /\ call.op = "kilobytes") => ret = Ok(n)
               /\ (made.op = "new_from_megabytes" /\ call.op = "megabytes") => ret = Ok(n)

\* C8 witness: the largest count of kilobytes that fits was read back.
C8_Witness ==
    /\ made.op = "new_from_kilobytes"
    /\ made.arg = DivSmall(U32_MAX, 8000)
    /\ call.op = "kilobytes"
    /\ ret = Ok(made.arg)

\* Two outcomes of an addition agree: both values and equal, or both the
\* overflow panic.
SameSum(p, q) ==
    \/ p.kind = "ok" /\ q.kind = "ok" /\ p.value = q.value
    \/ /\ p.kind = "panic" /\ q.kind = "panic"
       /\ p.message = "Addition results in an overflow"
       /\ q.message = "Addition results in an overflow"

\* C9: a + b and b + a both fail or both give equal values, and (a + b) + c
\* and a + (b + c) both fail with overflow or both give equal values.
C9_AddCommutesAndAssociates ==
    call.op = "sums"
        => /\ SameSum(ret.ab, ret.ba)
           /\ SameSum(ret.ab_c, ret.a_bc)

\* C9 witness: (a + b) + c overflowed in its first sum and a + (b + c) in
\* its second.
C9_Witness ==
    /\ call.op = "sums"
    /\ ret.ab.kind = "panic"
    /\ add(call.b, call.c).kind = "ok"
    /\ size.value # call.b
    /\ ret.a_bc.kind = "panic"

\* C10: a macro applied to an integer amount N either fails or yields the
\* DataSize of exactly N times the unit multiplier bits; an amount outside
\* [0, 2^32 - 1] never yields a DataSize.
C10_MacrosNeverReduceModulo ==
    (made.op \in Macros /\ size.kind = "ok")
        => LET N == made.arg
               k == BitsPerUnit(IF made.op = "datasize!" THEN made.size_type ELSE made.op)
           IN  /\ ~N.neg
               /\ IsU32(N.mag)
               /\ IsProduct(size.value.num_bits, N.mag, k)

====
